---- MODULE Spec2Model ----
(***************************************************************************)
(* Uniswap V3 action provider (coinbase_agentkit/action_providers/         *)
(* uniswap_v3): the two request handlers create_liquidity and get_price,   *)
(* run against a wallet provider whose every call may return or raise.     *)
(*                                                                         *)
(* One behaviour is one invocation of one handler.  Each wallet-provider   *)
(* call is one action whose outcome (a value or an exception) is chosen by *)
(* the environment; the pure code between two calls belongs to the action  *)
(* that precedes the next call.                                            *)
(***************************************************************************)
EXTENDS Integers, Sequences, FiniteSets, TLC

VARIABLES
    handler,   \* which handler was invoked: "none", "create_liquidity", "get_price"
    pc,        \* position in the handler's code
    args,      \* the args dict handed to the handler
    loc,       \* the handler's local variables
    calls,     \* wallet-provider calls issued so far, in order
    txs,       \* transactions handed to send_transaction so far, in order
    receipts,  \* receipts obtained from wait_for_transaction_receipt, in order
    result     \* what the invocation produced: a returned string or a raised exception

vars == <<handler, pc, args, loc, calls, txs, receipts, result>>

(***************************************************************************)
(* Addresses.  An address is its 40 hex digits plus the letter case it is  *)
(* written in: "lower" (all lower-case) or "checksum" (EIP-55 mixed case). *)
(* Two address strings are equal in Python only when both agree.           *)
(***************************************************************************)
ZERO_HEX == "0000000000000000000000000000000000000000"

LowerAddr(h) == [hex |-> h, case |-> "lower"]

\* str.lower() on an address string
lower(a) == [a EXCEPT !.case = "lower"]

\* Web3.to_checksum_address: the zero address has no letters, so its
\* checksummed spelling is its lower-case spelling
to_checksum_address(a) ==
    IF a.hex = ZERO_HEX THEN [a EXCEPT !.case = "lower"]
    ELSE [a EXCEPT !.case = "checksum"]

NO_ADDRESS == [hex |-> "", case |-> "lower"]

(***************************************************************************)
(* constants.py                                                            *)
(***************************************************************************)
SUPPORTED_NETWORKS == <<"ethereum-mainnet">>

POSITION_MANAGER_ADDRESSES ==
    [k \in {"ethereum-mainnet"} |->
        to_checksum_address(LowerAddr("c36442b4a4522e871399cd717abdd847ab11fe88"))]

ASSET_ADDRESSES ==
    [k \in {"ethereum-mainnet"} |->
        [weth |-> to_checksum_address(LowerAddr("c02aaa39b223fe8d0a0e5c4f27ead9083c756cc2")),
         usdc |-> to_checksum_address(LowerAddr("a0b86991c6218b36c1d19d4a2e9eb0ce3606eb48"))]]

ASSET_DECIMALS == [weth |-> 18, usdc |-> 6]

UNISWAP_V3_FACTORY_ADDRESS ==
    [k \in {"ethereum-mainnet"} |->
        to_checksum_address(LowerAddr("1f98431c8ad98523631ae4a59f267346ea31f984"))]

\* the literal the pool address is compared with in get_price
ZERO_ADDRESS == LowerAddr(ZERO_HEX)

\* gas limit of the mint transaction
MINT_GAS == 3000000

\* seconds added to the current time by get_deadline
DEADLINE_SECONDS == 1800

(***************************************************************************)
(* Outcome of a piece of code that may raise: a value or an exception.     *)
(***************************************************************************)
Ok(v) == [ok |-> TRUE, value |-> v, exc |-> ""]
Raise(v, e) == [ok |-> FALSE, value |-> v, exc |-> e]

(***************************************************************************)
(* Network descriptors.                                                    *)
(***************************************************************************)
Net(family, chain, id) == [protocol_family |-> family, chain_id |-> chain, network_id |-> id]

NO_NETWORK == Net("", "", "")

\* the descriptors the wallet provider may report
Networks ==
    { Net("evm", "1", "ethereum-mainnet"),
      Net("evm", "1", "mainnet"),
      Net("evm", "5", "mainnet"),
      Net("evm", "5", "ethereum-mainnet"),
      Net("evm", "8453", "base-mainnet"),
      Net("svm", "", "mainnet"),
      Net("svm", "1", "solana-mainnet") }

supports_network_no_family(network) ==
    network.chain_id = "1" \/ network.network_id \in {"mainnet", "ethereum-mainnet"}

supports_network(network) ==
    LET is_mainnet == network.chain_id = "1"
                      \/ network.network_id \in {"mainnet", "ethereum-mainnet"}
    IN  network.protocol_family = "evm" /\ is_mainnet

get_position_manager_address(network) ==
    IF network.chain_id = "1"
    THEN Ok(POSITION_MANAGER_ADDRESSES["ethereum-mainnet"])
    ELSE IF network.network_id \in DOMAIN POSITION_MANAGER_ADDRESSES
    THEN Ok(POSITION_MANAGER_ADDRESSES[network.network_id])
    ELSE Raise(NO_ADDRESS, "ValueError: No Position Manager address available")

get_asset_address(network, asset_id) ==
    LET key == IF network.chain_id = "1" THEN "ethereum-mainnet" ELSE network.network_id
    IN  IF key \in DOMAIN ASSET_ADDRESSES /\ asset_id \in DOMAIN ASSET_ADDRESSES[key]
        THEN Ok(ASSET_ADDRESSES[key][asset_id])
        ELSE Raise(NO_ADDRESS, "ValueError: Asset not supported")

(***************************************************************************)
(* Strings and integers.  A Python str is a sequence of one-character      *)
(* strings.  A Python int that may exceed the machine range (an amount in  *)
(* atomic units, 10^18 per WETH) is the sequence of its decimal digits,    *)
(* most significant first, without leading zeros; zero is <<>>.            *)
(***************************************************************************)
DigitChars == <<"0", "1", "2", "3", "4", "5", "6", "7", "8", "9">>

IsDigitChar(c) == \E n \in 1..10 : DigitChars[n] = c

DigitOf(c) == (CHOOSE n \in 1..10 : DigitChars[n] = c) - 1

Max(a, b) == IF a >= b THEN a ELSE b

RECURSIVE Normalize(_)
Normalize(ds) ==
    IF ds = <<>> THEN <<>>
    ELSE IF ds[1] = 0 THEN Normalize(Tail(ds))
    ELSE ds

\* int(s) for a str s: raises ValueError unless s is a non-empty run of digits
\* (signs, blanks and underscores are outside the alphabet of the model)
int(s) ==
    IF Len(s) > 0 /\ \A i \in 1..Len(s) : IsDigitChar(s[i])
    THEN Ok(Normalize([i \in 1..Len(s) |-> DigitOf(s[i])]))
    ELSE Raise(<<>>, "ValueError")

Zeros(n) == [i \in 1..n |-> 0]

\* a * 10**k
MulPow10(a, k) == IF a = <<>> THEN <<>> ELSE a \o Zeros(k)

PadLeft(ds, n) == Zeros(n - Len(ds)) \o ds

RECURSIVE AddFrom(_, _, _, _)
AddFrom(a, b, i, carry) ==
    IF i = 0 THEN (IF carry = 0 THEN <<>> ELSE <<carry>>)
    ELSE LET s == a[i] + b[i] + carry
         IN  AddFrom(a, b, i - 1, s \div 10) \o <<s % 10>>

\* a + b
Add(a, b) ==
    IF a = <<>> THEN b
    ELSE IF b = <<>> THEN a
    ELSE LET n == Max(Len(a), Len(b))
         IN  Normalize(AddFrom(PadLeft(a, n), PadLeft(b, n), n, 0))

\* a < b
Less(a, b) ==
    \/ Len(a) < Len(b)
    \/ /\ Len(a) = Len(b)
       /\ \E i \in 1..Len(a) :
            /\ a[i] < b[i]
            /\ \A j \in 1..(i - 1) : a[j] = b[j]

\* n * 10**k for a machine integer 0 <= n <= 9
Scaled(n, k) == MulPow10(Normalize(<<n>>), k)

\* str.split(".")
RECURSIVE split(_)
split(s) ==
    IF \E i \in 1..Len(s) : s[i] = "."
    THEN LET i == CHOOSE k \in 1..Len(s) : s[k] = "." /\ \A j \in 1..(k - 1) : s[j] # "."
         IN  <<SubSeq(s, 1, i - 1)>> \o split(SubSeq(s, i + 1, Len(s)))
    ELSE <<s>>

\* str.ljust(n, "0")
ljust(s, n) == IF Len(s) >= n THEN s ELSE s \o [i \in 1..(n - Len(s)) |-> "0"]

(***************************************************************************)
(* utils.format_amount_with_decimals, for amounts without "e"/"E" (the     *)
(* alphabet of the model has neither, so the test of line 65 is false).    *)
(***************************************************************************)
format_amount_with_decimals(amount, decimals) ==
    LET parts == split(amount)
    IN  IF Len(parts) = 1
        THEN LET w == int(parts[1])
             IN  IF w.ok THEN Ok(MulPow10(w.value, decimals))
                 ELSE Raise(<<>>, "ValueError: Invalid amount format")
        ELSE IF Len(parts) # 2
        THEN Raise(<<>>, "ValueError: Invalid amount format")
        ELSE LET whole    == parts[1]
                 fraction == IF Len(parts[2]) > decimals
                             THEN SubSeq(parts[2], 1, decimals)
                             ELSE ljust(parts[2], decimals)
                 w == int(whole)
                 f == int(fraction)
             IN  IF w.ok /\ f.ok
                 THEN Ok(Add(MulPow10(w.value, decimals), f.value))
                 ELSE Raise(<<>>, "ValueError: Invalid amount format")

(***************************************************************************)
(* utils.format_amount_from_decimals.  Decimal(amount) / 10**decimals is   *)
(* a coefficient and an exponent; the quotient is exact for amounts of at  *)
(* most 28 digits (the precision of the default context), which is every   *)
(* amount of the model.  An exact quotient drops trailing zeros of the     *)
(* coefficient while its exponent is below 0 (the ideal exponent).         *)
(***************************************************************************)
RECURSIVE decimal_divide(_, _)
decimal_divide(coefficient, decimals) ==
    IF decimals > 0 /\ coefficient # <<>> /\ coefficient[Len(coefficient)] = 0
    THEN decimal_divide(SubSeq(coefficient, 1, Len(coefficient) - 1), decimals - 1)
    ELSE [coefficient |-> coefficient, exponent |-> -decimals]

\* the digits of a big integer, or of a machine integer, as a str
DigitString(ds) == [i \in 1..Len(ds) |-> DigitChars[ds[i] + 1]]

RECURSIVE NatString(_)
NatString(n) ==
    IF n < 10 THEN <<DigitChars[n + 1]>>
    ELSE NatString(n \div 10) \o <<DigitChars[(n % 10) + 1]>>

\* str(Decimal): plain notation when the exponent is <= 0 and the adjusted
\* exponent is >= -6, scientific notation otherwise
decimal_str(dec) ==
    LET ds       == DigitString(dec.coefficient)
        n        == Len(ds)
        adjusted == dec.exponent + n - 1
        point    == n + dec.exponent
    IN  IF dec.exponent <= 0 /\ adjusted >= -6
        THEN IF dec.exponent = 0 THEN ds
             ELSE IF point > 0
             THEN SubSeq(ds, 1, point) \o <<".">> \o SubSeq(ds, point + 1, n)
             ELSE <<"0", ".">> \o [i \in 1..(-point) |-> "0"] \o ds
        ELSE <<ds[1]>>
             \o (IF n > 1 THEN <<".">> \o SubSeq(ds, 2, n) ELSE <<>>)
             \o <<"E", IF adjusted >= 0 THEN "+" ELSE "-">>
             \o NatString(IF adjusted >= 0 THEN adjusted ELSE -adjusted)

\* str.rstrip(c)
RECURSIVE rstrip(_, _)
rstrip(s, c) ==
    IF s # <<>> /\ s[Len(s)] = c THEN rstrip(SubSeq(s, 1, Len(s) - 1), c) ELSE s

format_amount_from_decimals(amount, decimals) ==
    IF amount = <<>> THEN <<"0">>
    ELSE LET s == decimal_str(decimal_divide(amount, decimals))
         IN  IF \E i \in 1..Len(s) : s[i] = "."
             THEN rstrip(rstrip(s, "0"), ".")
             ELSE s

(***************************************************************************)
(* Python floats.  A float is m * 2**e with m an integer below 2**53 and e *)
(* a machine integer; every operation yields the exact result rounded to   *)
(* 53 significant bits, ties to even (IEEE 754 binary64, far from overflow *)
(* and underflow for the values of the model, all >= 0).  The arithmetic   *)
(* on m is done four decimal digits at a time: a big integer is a sequence *)
(* of limbs below 10**4, most significant first, zero being <<>>.          *)
(***************************************************************************)
LimbBase == 10^4

\* the limbs of a digit sequence, and back
Limbs(ds) ==
    LET k == (Len(ds) + 3) \div 4
        p == PadLeft(ds, 4 * k)
    IN  [j \in 1..k |-> 1000 * p[4 * j - 3] + 100 * p[4 * j - 2] + 10 * p[4 * j - 1] + p[4 * j]]

Digits(a) ==
    Normalize([i \in 1..(4 * Len(a)) |-> (a[(i + 3) \div 4] \div 10^(3 - ((i - 1) % 4))) % 10])

\* a without its leading zero limbs
LNormalize(a) ==
    IF \A i \in 1..Len(a) : a[i] = 0 THEN <<>>
    ELSE SubSeq(a, CHOOSE i \in 1..Len(a) : a[i] # 0 /\ \A j \in 1..(i - 1) : a[j] = 0, Len(a))

LPadLeft(a, n) == [i \in 1..(n - Len(a)) |-> 0] \o a

\* a < b
LLess(a, b) ==
    \/ Len(a) < Len(b)
    \/ /\ Len(a) = Len(b)
       /\ \E i \in 1..Len(a) :
            /\ a[i] < b[i]
            /\ \A j \in 1..(i - 1) : a[j] = b[j]

\* a + b
RECURSIVE LAddFrom(_, _, _, _)
LAddFrom(a, b, i, carry) ==
    IF i = 0 THEN (IF carry = 0 THEN <<>> ELSE <<carry>>)
    ELSE LET t == a[i] + b[i] + carry
         IN  LAddFrom(a, b, i - 1, t \div LimbBase) \o <<t % LimbBase>>

LAdd(a, b) ==
    IF a = <<>> THEN b
    ELSE IF b = <<>> THEN a
    ELSE LET n == Max(Len(a), Len(b))
         IN  LAddFrom(LPadLeft(a, n), LPadLeft(b, n), n, 0)

\* a - b for a >= b
RECURSIVE LSubFrom(_, _, _, _)
LSubFrom(a, b, i, borrow) ==
    IF i = 0 THEN <<>>
    ELSE LET t == a[i] - b[i] - borrow
         IN  LSubFrom(a, b, i - 1, IF t < 0 THEN 1 ELSE 0)
               \o <<IF t < 0 THEN t + LimbBase ELSE t>>

LSub(a, b) ==
    IF a = <<>> \/ b = <<>> THEN a
    ELSE LNormalize(LSubFrom(a, LPadLeft(b, Len(a)), Len(a), 0))

\* a * n for a machine integer 0 <= n <= 2**17
RECURSIVE LMulSmallFrom(_, _, _, _)
LMulSmallFrom(a, n, i, carry) ==
    IF i = 0
    THEN (IF carry = 0 THEN <<>>
          ELSE LMulSmallFrom(a, n, 0, carry \div LimbBase) \o <<carry % LimbBase>>)
    ELSE LET t == a[i] * n + carry
         IN  LMulSmallFrom(a, n, i - 1, t \div LimbBase) \o <<t % LimbBase>>

LMulSmall(a, n) ==
    IF a = <<>> \/ n = 0 THEN <<>> ELSE LNormalize(LMulSmallFrom(a, n, Len(a), 0))

\* quotient and remainder of a by a machine integer 0 < n <= 2**17
RECURSIVE LDivModSmallFrom(_, _, _, _)
LDivModSmallFrom(a, n, i, rem) ==
    IF i > Len(a) THEN [q |-> <<>>, r |-> rem]
    ELSE LET t    == rem * LimbBase + a[i]
             rest == LDivModSmallFrom(a, n, i + 1, t % n)
         IN  [q |-> <<t \div n>> \o rest.q, r |-> rest.r]

LDivModSmall(a, n) ==
    IF a = <<>> THEN [q |-> <<>>, r |-> 0]
    ELSE LET d == LDivModSmallFrom(a, n, 1, 0) IN [q |-> LNormalize(d.q), r |-> d.r]

\* a * b
RECURSIVE LMul(_, _)
LMul(a, b) ==
    IF b = <<>> \/ a = <<>> THEN <<>>
    ELSE LAdd(LMul(a, SubSeq(b, 1, Len(b) - 1)) \o <<0>>, LMulSmall(a, b[Len(b)]))

\* a * 2**k and floor(a / 2**k), 17 bits at a time
RECURSIVE LShiftLeft(_, _)
LShiftLeft(a, k) ==
    IF a = <<>> \/ k = 0 THEN a
    ELSE IF k <= 17 THEN LMulSmall(a, 2^k)
    ELSE LShiftLeft(LMulSmall(a, 2^17), k - 17)

RECURSIVE LShiftRight(_, _)
LShiftRight(a, k) ==
    IF a = <<>> \/ k = 0 THEN a
    ELSE IF k <= 17 THEN LDivModSmall(a, 2^k).q
    ELSE LShiftRight(LDivModSmall(a, 2^17).q, k - 17)

\* the number of bits of a: the k with 2**(k-1) <= a < 2**k
LBitLength(a) ==
    IF a = <<>> THEN 0
    ELSE CHOOSE k \in (13 * (Len(a) - 1) + 1)..(14 * Len(a)) :
           /\ LLess(a, LShiftLeft(<<1>>, k))
           /\ ~LLess(a, LShiftLeft(<<1>>, k - 1))

\* the float m * 2**e for a digit sequence m
Float(m, e) == [m |-> Limbs(m), e |-> e]

\* m * 2**e, plus a nonzero part below one unit of m when sticky, rounded
\* to 53 bits, ties to even
RoundToFloat(m, e, sticky) ==
    LET bits == LBitLength(m)
    IN  IF bits <= 53 THEN [m |-> m, e |-> e]
        ELSE LET shift == bits - 53
                 q     == LShiftRight(m, shift)
                 r     == LSub(m, LShiftLeft(q, shift))
                 half  == LShiftLeft(<<1>>, shift - 1)
                 odd   == q[Len(q)] % 2 = 1
                 up    == \/ LLess(half, r)
                          \/ r = half /\ (sticky \/ odd)
             IN  [m |-> IF up THEN LAdd(q, <<1>>) ELSE q, e |-> e + shift]

\* float(n) for an int n >= 0
float_of_int(n) == RoundToFloat(Limbs(n), 0, FALSE)

\* x / n for a float x >= 0 and a machine integer n > 0 that is a float
float_div_small(x, n) ==
    IF x.m = <<>> THEN x
    ELSE LET t == Max(0, 56 + LBitLength(<<n>>) - LBitLength(x.m))
             d == LDivModSmall(LShiftLeft(x.m, t), n)
         IN  RoundToFloat(d.q, x.e - t, d.r # 0)

\* 1 - x for a float 0 <= x <= 1
one_minus(x) ==
    IF x.m = <<>> THEN [m |-> <<1>>, e |-> 0]
    ELSE IF x.e >= 0 THEN [m |-> LSub(<<1>>, LShiftLeft(x.m, x.e)), e |-> 0]
    ELSE RoundToFloat(LSub(LShiftLeft(<<1>>, -x.e), x.m), x.e, FALSE)

\* x * y
float_mul(x, y) ==
    IF x.m = <<>> \/ y.m = <<>> THEN [m |-> <<>>, e |-> 0]
    ELSE RoundToFloat(LMul(x.m, y.m), x.e + y.e, FALSE)

\* int(x) for a float x >= 0: the fraction is dropped
int_of_float(x) ==
    Digits(IF x.e >= 0 THEN LShiftLeft(x.m, x.e) ELSE LShiftRight(x.m, -x.e))

(***************************************************************************)
(* utils.calculate_slippage_amounts, for 0 <= slippage_percentage <= 100.  *)
(***************************************************************************)
calculate_slippage_amounts(amount, slippage_percentage) ==
    LET slippage_factor == one_minus(float_div_small(slippage_percentage, 100))
    IN  int_of_float(float_mul(float_of_int(amount), slippage_factor))

(***************************************************************************)
(* The environment: what the caller passes and what the wallet provider    *)
(* answers.                                                                *)
(***************************************************************************)
\* longest list of logs a receipt of the model carries
MaxLogs == 2

WALLET_ADDRESS == to_checksum_address(LowerAddr("00000000000000000000000000000000000000aa"))

POOL_ADDRESS == to_checksum_address(LowerAddr("88e6a0c2ddd26feeb64f039a2c41296fcb3f5640"))

AmountWethInputs == { <<"1">>, <<"0", ".", "5">>, <<"1", ".", "2", ".", "3">> }

AmountUsdcInputs == { <<"1", "0", "0", "0">>, <<"x">> }

TickLowerInputs == {-60000, -50, 0, 25}

TickUpperInputs == {60000, 10, -120, 9000000}

FeeTierInputs == {500, 3000, 10000, 7777}

\* args that pass CreateLiquiditySchema
\* the slippage the schema fills in: 0.5
SlippageDefault == { Float(<<1>>, -1) }

CreateLiquidityArgs ==
    [schema_ok : {TRUE}, amount_weth : AmountWethInputs, amount_usdc : AmountUsdcInputs,
     tick_lower : TickLowerInputs, tick_upper : TickUpperInputs, fee_tier : FeeTierInputs,
     slippage : SlippageDefault]

\* args pydantic rejects (a missing field, a tick that is no integer)
BAD_ARGS ==
    [schema_ok |-> FALSE, amount_weth |-> <<>>, amount_usdc |-> <<>>,
     tick_lower |-> 0, tick_upper |-> 0, fee_tier |-> 0, slippage |-> Float(<<>>, 0)]

GetPriceArgs ==
    { [BAD_ARGS EXCEPT !.schema_ok = TRUE, !.fee_tier = f] : f \in FeeTierInputs }

NO_ARGS == BAD_ARGS

WethBalances == { Scaled(7, 17), Scaled(2, 18) }

UsdcBalances == { Scaled(9, 8), Scaled(5, 9) }

\* the hash the wallet provider returns for the n-th transaction it is handed
TxHashes == <<"0xh1", "0xh2", "0xh3">>

NO_HASH == ""

\* the clock readings of time.time()
Times == {1700000000}

\* a log entry: the emitting address and the topics (each topic by its
\* integer value, which is what int(topic.hex(), 16) yields)
LogEntries ==
    { [address |-> lower(POSITION_MANAGER_ADDRESSES["ethereum-mainnet"]), topics |-> <<1, 0, 2, 7>>],
      [address |-> POSITION_MANAGER_ADDRESSES["ethereum-mainnet"], topics |-> <<1, 0, 2>>],
      [address |-> POSITION_MANAGER_ADDRESSES["ethereum-mainnet"], topics |-> <<1, 0, 2, 0>>],
      [address |-> ASSET_ADDRESSES["ethereum-mainnet"].usdc, topics |-> <<1, 0, 2, 9>>] }

LogLists == UNION { [1..n -> LogEntries] : n \in 0..MaxLogs }

Receipts == [status : {0, 1}, logs : LogLists]

\* receipts of the approvals: their logs are never looked at
ApprovalReceipts == [status : {0, 1}, logs : {<<>>}]

Slot0Values == { <<Scaled(1, 28), 0>>, <<Scaled(4, 33), 200000>> }

(***************************************************************************)
(* The handlers' state.                                                    *)
(***************************************************************************)
Loc0 ==
    [network |-> NO_NETWORK,
     position_manager_address |-> NO_ADDRESS,
     weth_address |-> NO_ADDRESS,
     usdc_address |-> NO_ADDRESS,
     amount_weth_units |-> <<>>,
     amount_usdc_units |-> <<>>,
     amount_weth_min |-> <<>>,
     amount_usdc_min |-> <<>>,
     weth_balance |-> <<>>,
     usdc_balance |-> <<>>,
     fee_tier |-> 0,
     tick_spacing |-> 0,
     lower_tick |-> 0,
     upper_tick |-> 0,
     deadline |-> 0,
     recipient |-> NO_ADDRESS,
     tx_hash |-> NO_HASH,
     factory_address |-> NO_ADDRESS,
     pool_address |-> NO_ADDRESS]

\* a result: outcome is "pending", "returned" (a string was returned) or
\* "raised" (an exception left the handler); text names the returned
\* string and the other fields are the values formatted into it
Result0 ==
    [outcome |-> "pending", text |-> "", detail |-> "", network_id |-> "",
     tx_hash |-> NO_HASH, fee_tier |-> 0, lower_tick |-> 0, upper_tick |-> 0,
     has_token_id |-> FALSE, token_id |-> 0, balance |-> <<>>,
     sqrt_price_x96 |-> <<>>, tick |-> 0]

Returned(text, detail) == [Result0 EXCEPT !.outcome = "returned", !.text = text, !.detail = detail]

Raised(detail) == [Result0 EXCEPT !.outcome = "raised", !.detail = detail]

\* what a step leaves behind: where the handler goes on, and its result
Goto(p) == [pc |-> p, result |-> Result0]
Finish(r) == [pc |-> "done", result |-> r]

\* a wallet-provider call as logged: the method, for read_contract the
\* function name, the address it goes to, an integer argument (the fee
\* handed to getPool) and whether it raised
Call(fn, name, to, arg, raised) ==
    [fn |-> fn, name |-> name, to |-> to, arg |-> arg, raised |-> raised]

Init ==
    /\ handler = "none"
    /\ pc = "idle"
    /\ args = NO_ARGS
    /\ loc = Loc0
    /\ calls = <<>>
    /\ txs = <<>>
    /\ receipts = <<>>
    /\ result = Result0

(***************************************************************************)
(* create_liquidity: the pure code between the wallet-provider calls.      *)
(* Each piece yields the step it ends with (Goto or Finish) and the locals *)
(* it leaves.                                                              *)
(***************************************************************************)
Step(step, l) == [pc |-> step.pc, result |-> step.result, loc |-> l]

\* the outer handler, lines 318-324: any exception becomes a returned string
create_liquidity_reraise(e) == Finish(Raised(e))

create_liquidity_except(e) == Finish(Returned("error_creating", e))

\* the handlers around the two approvals and the mint, lines 181-187,
\* 193-199 and 310-316
approve_weth_swallow(e) == Goto("cl_approve_usdc_send")

approve_weth_except(e) == Finish(Returned("error_creating", e))

approve_usdc_except(e) == Finish(Returned("error_creating", e))

mint_except(e) == Finish(Returned("error_creating", e))

\* lines 128-140: the three addresses, or the error string returned
resolve_addresses_default(network) ==
    Ok([position_manager_address |-> POSITION_MANAGER_ADDRESSES["ethereum-mainnet"],
        weth_address |-> ASSET_ADDRESSES["ethereum-mainnet"].weth,
        usdc_address |-> ASSET_ADDRESSES["ethereum-mainnet"].usdc])

resolve_addresses(network) ==
    LET pm   == get_position_manager_address(network)
        weth == get_asset_address(network, "weth")
        usdc == get_asset_address(network, "usdc")
        none == [position_manager_address |-> NO_ADDRESS,
                 weth_address |-> NO_ADDRESS, usdc_address |-> NO_ADDRESS]
    IN  IF ~pm.ok THEN Raise(none, "pm_address_error")
        ELSE IF ~weth.ok \/ ~usdc.ok THEN Raise(none, "asset_address_error")
        ELSE Ok([position_manager_address |-> pm.value,
                 weth_address |-> weth.value, usdc_address |-> usdc.value])

\* lines 125-146, run once get_network has returned `network`
after_get_network(a, l, network) ==
    LET l1 == [l EXCEPT !.network = network]
        r  == resolve_addresses(network)
        l2 == [l1 EXCEPT !.position_manager_address = r.value.position_manager_address,
                         !.weth_address = r.value.weth_address,
                         !.usdc_address = r.value.usdc_address]
        w  == format_amount_with_decimals(a.amount_weth, ASSET_DECIMALS.weth)
        u  == format_amount_with_decimals(a.amount_usdc, ASSET_DECIMALS.usdc)
    IN  IF ~supports_network(network)
        THEN Step(Finish([Returned("unsupported_network", "")
                            EXCEPT !.network_id = network.network_id]), l1)
        ELSE IF ~r.ok
        THEN Step(Finish([Returned(r.exc, "") EXCEPT !.network_id = network.network_id]), l1)
        ELSE IF ~w.ok THEN Step(create_liquidity_except(w.exc), l2)
        ELSE IF ~u.ok THEN Step(create_liquidity_except(u.exc), l2)
        ELSE Step(Goto("cl_balance_weth"),
                  [l2 EXCEPT !.amount_weth_units = w.value, !.amount_usdc_units = u.value])

\* lines 152-158, run once both balances are read
check_balances_weth_only(l) ==
    IF Less(l.weth_balance, l.amount_weth_units)
    THEN Finish([Returned("insufficient_weth", "") EXCEPT
                    !.balance = format_amount_from_decimals(l.weth_balance, ASSET_DECIMALS.weth)])
    ELSE Goto("cl_balance_weth_again")

check_balances(l) ==
    IF Less(l.weth_balance, l.amount_weth_units)
    THEN Finish([Returned("insufficient_weth", "") EXCEPT
                    !.balance = format_amount_from_decimals(l.weth_balance, ASSET_DECIMALS.weth)])
    ELSE IF Less(l.usdc_balance, l.amount_usdc_units)
    THEN Finish([Returned("insufficient_usdc", "") EXCEPT
                    !.balance = format_amount_from_decimals(l.usdc_balance, ASSET_DECIMALS.usdc)])
    ELSE Goto("cl_balance_weth_again")

\* lines 161-162
slippage_minimums(a, l) ==
    [l EXCEPT !.amount_weth_min = calculate_slippage_amounts(l.amount_weth_units, a.slippage),
              !.amount_usdc_min = calculate_slippage_amounts(l.amount_usdc_units, a.slippage)]

\* lines 212-223: the fee tier submitted and its tick spacing
fee_tier_and_spacing_no_reset(fee_tier) ==
    IF fee_tier = 500 THEN [fee_tier |-> 500, tick_spacing |-> 10]
    ELSE IF fee_tier = 3000 THEN [fee_tier |-> 3000, tick_spacing |-> 60]
    ELSE IF fee_tier = 10000 THEN [fee_tier |-> 10000, tick_spacing |-> 200]
    ELSE [fee_tier |-> fee_tier, tick_spacing |-> 10]

fee_tier_and_spacing(fee_tier) ==
    IF fee_tier = 500 THEN [fee_tier |-> 500, tick_spacing |-> 10]
    ELSE IF fee_tier = 3000 THEN [fee_tier |-> 3000, tick_spacing |-> 60]
    ELSE IF fee_tier = 10000 THEN [fee_tier |-> 10000, tick_spacing |-> 200]
    ELSE [fee_tier |-> 500, tick_spacing |-> 10]

\* Python's // on machine-range integers with b > 0: the floor of a / b
trunc_div(a, b) == IF a >= 0 THEN a \div b ELSE -((-a) \div b)

floor_div(a, b) == a \div b

\* lines 225-234
align_ticks(tick_lower, tick_upper, tick_spacing) ==
    LET lower_tick == floor_div(tick_lower, tick_spacing) * tick_spacing
        upper_tick == floor_div(tick_upper, tick_spacing) * tick_spacing
    IN  [lower_tick |-> lower_tick,
         upper_tick |-> IF upper_tick <= lower_tick
                        THEN lower_tick + tick_spacing ELSE upper_tick]

\* lines 211-242, run once wallet_provider.web3 is in hand and the clock
\* reads `now`
prepare_mint(a, l, now) ==
    LET f == fee_tier_and_spacing(a.fee_tier)
        t == align_ticks(a.tick_lower, a.tick_upper, f.tick_spacing)
    IN  [l EXCEPT !.fee_tier = f.fee_tier, !.tick_spacing = f.tick_spacing,
                  !.lower_tick = t.lower_tick, !.upper_tick = t.upper_tick,
                  !.deadline = now + DEADLINE_SECONDS]

\* the ABI types of the mint tuple that a value of the model can leave:
\* tickLower and tickUpper are int24, fee is uint24
InInt24(t) == t >= -(2^23) /\ t < 2^23
InUint24(f) == f >= 0 /\ f < 2^24

\* the tuple with the two token addresses the other way round
mint_tuple_weth_first(l) ==
    [token0 |-> to_checksum_address(l.weth_address),
     token1 |-> to_checksum_address(l.usdc_address),
     fee |-> l.fee_tier,
     tickLower |-> l.lower_tick,
     tickUpper |-> l.upper_tick,
     amount0Desired |-> l.amount_usdc_units,
     amount1Desired |-> l.amount_weth_units,
     amount0Min |-> l.amount_usdc_min,
     amount1Min |-> l.amount_weth_min,
     recipient |-> l.recipient,
     deadline |-> l.deadline]

\* lines 246-258: token0 is USDC and token1 is WETH
mint_tuple(l) ==
    [token0 |-> to_checksum_address(l.usdc_address),
     token1 |-> to_checksum_address(l.weth_address),
     fee |-> l.fee_tier,
     tickLower |-> l.lower_tick,
     tickUpper |-> l.upper_tick,
     amount0Desired |-> l.amount_usdc_units,
     amount1Desired |-> l.amount_weth_units,
     amount0Min |-> l.amount_usdc_min,
     amount1Min |-> l.amount_weth_min,
     recipient |-> l.recipient,
     deadline |-> l.deadline]

\* lines 261-262: encoding the call raises when a value does not fit its type
encode_mint(l) ==
    IF InInt24(l.lower_tick) /\ InInt24(l.upper_tick) /\ InUint24(l.fee_tier)
    THEN Ok(mint_tuple(l))
    ELSE Raise(mint_tuple(l), "encoding: value out of range")

\* line 288
receipt_failed_never(status) == FALSE

receipt_failed(status) == status # 1

\* lines 292-297: the fourth topic of the first log of the position manager
\* that has more than three topics
RECURSIVE find_token_id(_, _)
find_token_id(logs, position_manager_address) ==
    IF logs = <<>> THEN [found |-> FALSE, token_id |-> 0]
    ELSE LET log == Head(logs)
         IN  IF lower(log.address) = lower(position_manager_address)
                /\ Len(log.topics) > 3
             THEN [found |-> TRUE, token_id |-> log.topics[4]]
             ELSE find_token_id(Tail(logs), position_manager_address)

\* lines 288-308, run once the mint's receipt is in hand
mint_result(l, receipt) ==
    IF receipt_failed(receipt.status)
    THEN Finish([Returned("mint_failed", "") EXCEPT !.tx_hash = l.tx_hash])
    ELSE LET t == find_token_id(receipt.logs, l.position_manager_address)
         IN  Finish([Returned("success", "") EXCEPT
                        !.tx_hash = l.tx_hash,
                        !.fee_tier = l.fee_tier,
                        !.lower_tick = l.lower_tick,
                        !.upper_tick = l.upper_tick,
                        !.has_token_id = t.found /\ t.token_id # 0,
                        !.token_id = IF t.found /\ t.token_id # 0 THEN t.token_id ELSE 0])

(***************************************************************************)
(* Transactions and the calls of utils.py.                                 *)
(***************************************************************************)
Tx(kind, to, gas, spender, amount, params) ==
    [kind |-> kind, to |-> to, gas |-> gas, spender |-> spender,
     amount |-> amount, params |-> params]

NO_PARAMS == mint_tuple(Loc0)

\* utils.approve_token, lines 118-128: the transaction it builds (no gas key)
approve_tx(token_address, spender_address, amount) ==
    Tx("approve", to_checksum_address(token_address), 0,
       to_checksum_address(spender_address), amount, NO_PARAMS)

\* lines 264-269
mint_tx(l) ==
    Tx("mint", to_checksum_address(l.position_manager_address), MINT_GAS,
       NO_ADDRESS, <<>>, mint_tuple(l))

\* utils.approve_token, lines 130-131: once the transaction is sent, its
\* receipt is waited for
approve_token_no_wait(token) ==
    Goto(IF token = "weth" THEN "cl_approve_usdc_send" ELSE "cl_web3")

approve_token_sent(token) ==
    Goto(IF token = "weth" THEN "cl_approve_weth_wait" ELSE "cl_approve_usdc_wait")

\* utils.get_token_balance: get_address is evaluated first, then
\* read_contract on the lower-cased token address; `failed` names the call
\* that raised, or is "" when the balance came back
GetTokenBalanceOutcomes == {"", "get_address", "read_contract"}

get_token_balance_calls(token_address, failed) ==
    IF failed = "get_address"
    THEN <<Call("get_address", "", NO_ADDRESS, 0, TRUE)>>
    ELSE <<Call("get_address", "", NO_ADDRESS, 0, FALSE),
           Call("read_contract", "balanceOf", lower(token_address), 0,
                failed = "read_contract")>>

(***************************************************************************)
(* create_liquidity, step by step.                                         *)
(***************************************************************************)
\* the call, with schema validation (line 121)
CL_Invoke ==
    /\ handler = "none"
    /\ \E a \in CreateLiquidityArgs \cup {BAD_ARGS} :
         LET s == IF a.schema_ok THEN Goto("cl_get_network")
                  ELSE create_liquidity_except("ValidationError")
         IN  /\ handler' = "create_liquidity"
             /\ args' = a
             /\ pc' = s.pc
             /\ result' = s.result
    /\ UNCHANGED <<loc, calls, txs, receipts>>

\* line 122, then lines 125-146
CL_GetNetwork ==
    /\ handler = "create_liquidity" /\ pc = "cl_get_network"
    /\ \/ LET s == create_liquidity_except("get_network raised")
          IN  /\ calls' = Append(calls, Call("get_network", "", NO_ADDRESS, 0, TRUE))
              /\ pc' = s.pc /\ result' = s.result
              /\ UNCHANGED loc
       \/ \E n \in Networks :
            LET s == after_get_network(args, loc, n)
            IN  /\ calls' = Append(calls, Call("get_network", "", NO_ADDRESS, 0, FALSE))
                /\ pc' = s.pc /\ result' = s.result /\ loc' = s.loc
    /\ UNCHANGED <<handler, args, txs, receipts>>

\* line 149
CL_BalanceWeth ==
    /\ handler = "create_liquidity" /\ pc = "cl_balance_weth"
    /\ \E failed \in GetTokenBalanceOutcomes :
         /\ calls' = calls \o get_token_balance_calls(loc.weth_address, failed)
         /\ IF failed = ""
            THEN \E b \in WethBalances :
                   /\ loc' = [loc EXCEPT !.weth_balance = b]
                   /\ pc' = "cl_balance_usdc"
                   /\ UNCHANGED result
            ELSE LET s == create_liquidity_except("ValueError: Could not get token balance")
                 IN  pc' = s.pc /\ result' = s.result /\ UNCHANGED loc
    /\ UNCHANGED <<handler, args, txs, receipts>>

\* line 150, then lines 152-162
CL_BalanceUsdc ==
    /\ handler = "create_liquidity" /\ pc = "cl_balance_usdc"
    /\ \E failed \in GetTokenBalanceOutcomes :
         /\ calls' = calls \o get_token_balance_calls(loc.usdc_address, failed)
         /\ IF failed = ""
            THEN \E b \in UsdcBalances :
                   LET l == [loc EXCEPT !.usdc_balance = b]
                       s == check_balances(l)
                   IN  /\ loc' = IF s.pc = "done" THEN l ELSE slippage_minimums(args, l)
                       /\ pc' = s.pc
                       /\ result' = s.result
            ELSE LET s == create_liquidity_except("ValueError: Could not get token balance")
                 IN  pc' = s.pc /\ result' = s.result /\ UNCHANGED loc
    /\ UNCHANGED <<handler, args, txs, receipts>>

\* line 167, inside the try of the WETH approval
CL_BalanceWethAgain ==
    /\ handler = "create_liquidity" /\ pc = "cl_balance_weth_again"
    /\ \E failed \in GetTokenBalanceOutcomes :
         /\ calls' = calls \o get_token_balance_calls(loc.weth_address, failed)
         /\ IF failed = ""
            THEN \E b \in WethBalances :
                   /\ loc' = [loc EXCEPT !.weth_balance = b]
                   /\ pc' = "cl_balance_usdc_again"
                   /\ UNCHANGED result
            ELSE LET s == approve_weth_except("ValueError: Could not get token balance")
                 IN  pc' = s.pc /\ result' = s.result /\ UNCHANGED loc
    /\ UNCHANGED <<handler, args, txs, receipts>>

\* line 168, then lines 171-176
CL_BalanceUsdcAgain ==
    /\ handler = "create_liquidity" /\ pc = "cl_balance_usdc_again"
    /\ \E failed \in GetTokenBalanceOutcomes :
         /\ calls' = calls \o get_token_balance_calls(loc.usdc_address, failed)
         /\ IF failed = ""
            THEN \E b \in UsdcBalances :
                   /\ loc' = [loc EXCEPT !.usdc_balance = b]
                   /\ pc' = "cl_approve_weth_send"
                   /\ UNCHANGED result
            ELSE LET s == approve_weth_except("ValueError: Could not get token balance")
                 IN  pc' = s.pc /\ result' = s.result /\ UNCHANGED loc
    /\ UNCHANGED <<handler, args, txs, receipts>>

\* lines 178-180: approve_token for WETH, utils.py line 130
CL_ApproveWethSend ==
    /\ handler = "create_liquidity" /\ pc = "cl_approve_weth_send"
    /\ LET tx == approve_tx(loc.weth_address, loc.position_manager_address,
                            loc.amount_weth_units)
       IN  /\ txs' = Append(txs, tx)
           /\ \/ /\ calls' = Append(calls, Call("send_transaction", "approve", tx.to, 0, FALSE))
                 /\ pc' = approve_token_sent("weth").pc
                 /\ UNCHANGED result
              \/ LET s == approve_weth_except("send_transaction raised")
                 IN  /\ calls' = Append(calls, Call("send_transaction", "approve", tx.to, 0, TRUE))
                     /\ pc' = s.pc /\ result' = s.result
    /\ UNCHANGED <<handler, args, loc, receipts>>

\* utils.py line 131 for WETH
CL_ApproveWethWait ==
    /\ handler = "create_liquidity" /\ pc = "cl_approve_weth_wait"
    /\ LET to == txs[Len(txs)].to
       IN  \/ \E r \in ApprovalReceipts :
                /\ calls' = Append(calls, Call("wait_for_transaction_receipt", "approve", to, 0, FALSE))
                /\ receipts' = Append(receipts, r)
                /\ pc' = "cl_approve_usdc_send"
                /\ UNCHANGED result
           \/ LET s == approve_weth_except("wait_for_transaction_receipt raised")
              IN  /\ calls' = Append(calls, Call("wait_for_transaction_receipt", "approve", to, 0, TRUE))
                  /\ pc' = s.pc /\ result' = s.result
                  /\ UNCHANGED receipts
    /\ UNCHANGED <<handler, args, loc, txs>>

\* lines 190-192: approve_token for USDC, utils.py line 130
CL_ApproveUsdcSend ==
    /\ handler = "create_liquidity" /\ pc = "cl_approve_usdc_send"
    /\ LET tx == approve_tx(loc.usdc_address, loc.position_manager_address,
                            loc.amount_usdc_units)
       IN  /\ txs' = Append(txs, tx)
           /\ \/ /\ calls' = Append(calls, Call("send_transaction", "approve", tx.to, 0, FALSE))
                 /\ pc' = approve_token_sent("usdc").pc
                 /\ UNCHANGED result
              \/ LET s == approve_usdc_except("send_transaction raised")
                 IN  /\ calls' = Append(calls, Call("send_transaction", "approve", tx.to, 0, TRUE))
                     /\ pc' = s.pc /\ result' = s.result
    /\ UNCHANGED <<handler, args, loc, receipts>>

\* utils.py line 131 for USDC
CL_ApproveUsdcWait ==
    /\ handler = "create_liquidity" /\ pc = "cl_approve_usdc_wait"
    /\ LET to == txs[Len(txs)].to
       IN  \/ \E r \in ApprovalReceipts :
                /\ calls' = Append(calls, Call("wait_for_transaction_receipt", "approve", to, 0, FALSE))
                /\ receipts' = Append(receipts, r)
                /\ pc' = "cl_web3"
                /\ UNCHANGED result
           \/ LET s == approve_usdc_except("wait_for_transaction_receipt raised")
              IN  /\ calls' = Append(calls, Call("wait_for_transaction_receipt", "approve", to, 0, TRUE))
                  /\ pc' = s.pc /\ result' = s.result
                  /\ UNCHANGED receipts
    /\ UNCHANGED <<handler, args, loc, txs>>

\* line 209, then lines 211-242 (get_deadline reads the clock)
CL_Web3 ==
    /\ handler = "create_liquidity" /\ pc = "cl_web3"
    /\ \/ \E now \in Times :
            /\ calls' = Append(calls, Call("web3", "", NO_ADDRESS, 0, FALSE))
            /\ loc' = prepare_mint(args, loc, now)
            /\ pc' = "cl_get_address"
            /\ UNCHANGED result
       \/ LET s == create_liquidity_except("wallet_provider.web3 raised")
          IN  /\ calls' = Append(calls, Call("web3", "", NO_ADDRESS, 0, TRUE))
              /\ pc' = s.pc /\ result' = s.result
              /\ UNCHANGED loc
    /\ UNCHANGED <<handler, args, txs, receipts>>

\* line 243, then lines 246-282
CL_GetAddress ==
    /\ handler = "create_liquidity" /\ pc = "cl_get_address"
    /\ \/ LET l == [loc EXCEPT !.recipient = WALLET_ADDRESS]
              e == encode_mint(l)
              s == IF e.ok THEN Goto("cl_mint_send") ELSE create_liquidity_except(e.exc)
          IN  /\ calls' = Append(calls, Call("get_address", "", NO_ADDRESS, 0, FALSE))
              /\ loc' = l
              /\ pc' = s.pc /\ result' = s.result
       \/ LET s == create_liquidity_except("get_address raised")
          IN  /\ calls' = Append(calls, Call("get_address", "", NO_ADDRESS, 0, TRUE))
              /\ pc' = s.pc /\ result' = s.result
              /\ UNCHANGED loc
    /\ UNCHANGED <<handler, args, txs, receipts>>

\* line 285
CL_MintSend ==
    /\ handler = "create_liquidity" /\ pc = "cl_mint_send"
    /\ LET tx == mint_tx(loc)
       IN  /\ txs' = Append(txs, tx)
           /\ \/ /\ calls' = Append(calls, Call("send_transaction", "mint", tx.to, 0, FALSE))
                 /\ loc' = [loc EXCEPT !.tx_hash = TxHashes[Len(txs')]]
                 /\ pc' = "cl_mint_wait"
                 /\ UNCHANGED result
              \/ LET s == mint_except("send_transaction raised")
                 IN  /\ calls' = Append(calls, Call("send_transaction", "mint", tx.to, 0, TRUE))
                     /\ pc' = s.pc /\ result' = s.result
                     /\ UNCHANGED loc
    /\ UNCHANGED <<handler, args, receipts>>

\* line 286, then lines 288-308
CL_MintWait ==
    /\ handler = "create_liquidity" /\ pc = "cl_mint_wait"
    /\ LET to == txs[Len(txs)].to
       IN  \/ \E r \in Receipts :
                LET s == mint_result(loc, r)
                IN  /\ calls' = Append(calls, Call("wait_for_transaction_receipt", "mint", to, 0, FALSE))
                    /\ receipts' = Append(receipts, r)
                    /\ pc' = s.pc /\ result' = s.result
           \/ LET s == mint_except("wait_for_transaction_receipt raised")
              IN  /\ calls' = Append(calls, Call("wait_for_transaction_receipt", "mint", to, 0, TRUE))
                  /\ pc' = s.pc /\ result' = s.result
                  /\ UNCHANGED receipts
    /\ UNCHANGED <<handler, args, loc, txs>>

create_liquidity ==
    \/ CL_Invoke
    \/ CL_GetNetwork
    \/ CL_BalanceWeth
    \/ CL_BalanceUsdc
    \/ CL_BalanceWethAgain
    \/ CL_BalanceUsdcAgain
    \/ CL_ApproveWethSend
    \/ CL_ApproveWethWait
    \/ CL_ApproveUsdcSend
    \/ CL_ApproveUsdcWait
    \/ CL_Web3
    \/ CL_GetAddress
    \/ CL_MintSend
    \/ CL_MintWait

(***************************************************************************)
(* get_price.  Nothing encloses the handler: only the three try blocks     *)
(* (lines 337-341, 343-355, 359-367) turn an exception into a string.      *)
(***************************************************************************)
get_price_uncaught(e) == Finish(Raised(e))

\* line 356
no_pool_never(pool_address) == FALSE

no_pool(pool_address) == pool_address = ZERO_ADDRESS

\* lines 335-342, run once get_network has returned `network`
gp_after_get_network(l, network) ==
    LET l1   == [l EXCEPT !.network = network]
        weth == get_asset_address(network, "weth")
        usdc == get_asset_address(network, "usdc")
        l2   == [l1 EXCEPT !.weth_address = weth.value, !.usdc_address = usdc.value]
    IN  IF ~supports_network(network)
        THEN Step(Finish([Returned("unsupported_network", "")
                            EXCEPT !.network_id = network.network_id]), l1)
        ELSE IF ~weth.ok \/ ~usdc.ok
        THEN Step(Finish(Returned("asset_address_error", "")), l1)
        ELSE IF network.network_id \notin DOMAIN UNISWAP_V3_FACTORY_ADDRESS
        THEN Step(get_price_uncaught("KeyError"), l2)
        ELSE Step(Goto("gp_get_pool"),
                  [l2 EXCEPT !.factory_address =
                      to_checksum_address(UNISWAP_V3_FACTORY_ADDRESS[network.network_id])])

\* lines 356-358, run once getPool has returned `pool_address`
gp_after_get_pool(a, l, pool_address) ==
    IF no_pool(pool_address)
    THEN Step(Finish([Returned("no_pool", "") EXCEPT !.fee_tier = a.fee_tier]),
              [l EXCEPT !.pool_address = pool_address])
    ELSE Step(Goto("gp_slot0"), [l EXCEPT !.pool_address = to_checksum_address(pool_address)])

\* lines 368-373: the string carries the price computed from sqrtPriceX96
\* (here the reading itself) and the current tick
gp_price(slot0) ==
    Finish([Returned("price", "") EXCEPT !.sqrt_price_x96 = slot0[1], !.tick = slot0[2]])

\* the call, with schema validation (line 333)
GP_Invoke ==
    /\ handler = "none"
    /\ \E a \in GetPriceArgs \cup {BAD_ARGS} :
         LET s == IF a.schema_ok THEN Goto("gp_get_network")
                  ELSE get_price_uncaught("ValidationError")
         IN  /\ handler' = "get_price"
             /\ args' = a
             /\ pc' = s.pc
             /\ result' = s.result
    /\ UNCHANGED <<loc, calls, txs, receipts>>

\* line 334, then lines 335-342
GP_GetNetwork ==
    /\ handler = "get_price" /\ pc = "gp_get_network"
    /\ \/ LET s == get_price_uncaught("get_network raised")
          IN  /\ calls' = Append(calls, Call("get_network", "", NO_ADDRESS, 0, TRUE))
              /\ pc' = s.pc /\ result' = s.result
              /\ UNCHANGED loc
       \/ \E n \in Networks :
            LET s == gp_after_get_network(loc, n)
            IN  /\ calls' = Append(calls, Call("get_network", "", NO_ADDRESS, 0, FALSE))
                /\ pc' = s.pc /\ result' = s.result /\ loc' = s.loc
    /\ UNCHANGED <<handler, args, txs, receipts>>

\* line 351: the fee handed to getPool
get_pool_fee_fallback(a) == fee_tier_and_spacing(a.fee_tier).fee_tier

get_pool_fee(a) == a.fee_tier

\* lines 343-355, then lines 356-358
GP_GetPool ==
    /\ handler = "get_price" /\ pc = "gp_get_pool"
    /\ \/ /\ calls' = Append(calls, Call("read_contract", "getPool", loc.factory_address,
                                         get_pool_fee(args), TRUE))
          /\ pc' = "done"
          /\ result' = Returned("pool_fetch_failed", "read_contract raised")
          /\ UNCHANGED loc
       \/ \E p \in {ZERO_ADDRESS, POOL_ADDRESS} :
            LET s == gp_after_get_pool(args, loc, p)
            IN  /\ calls' = Append(calls, Call("read_contract", "getPool", loc.factory_address,
                                               get_pool_fee(args), FALSE))
                /\ pc' = s.pc /\ result' = s.result /\ loc' = s.loc
    /\ UNCHANGED <<handler, args, txs, receipts>>

\* lines 359-367, then lines 368-373
GP_Slot0 ==
    /\ handler = "get_price" /\ pc = "gp_slot0"
    /\ \/ /\ calls' = Append(calls, Call("read_contract", "slot0", loc.pool_address, 0, TRUE))
          /\ pc' = "done"
          /\ result' = Returned("slot0_failed", "read_contract raised")
       \/ \E v \in Slot0Values :
            LET s == gp_price(v)
            IN  /\ calls' = Append(calls, Call("read_contract", "slot0", loc.pool_address, 0, FALSE))
                /\ pc' = s.pc /\ result' = s.result
    /\ UNCHANGED <<handler, args, loc, txs, receipts>>

get_price ==
    \/ GP_Invoke
    \/ GP_GetNetwork
    \/ GP_GetPool
    \/ GP_Slot0

Next == create_liquidity \/ get_price

Spec == Init /\ [][Next]_vars

(***************************************************************************)
(* The amount conversions of utils.py on their own: one behaviour converts *)
(* one amount string to atomic units and the units back to a string.       *)
(***************************************************************************)
MaxFractionZeros == 10

WholeInputs == { <<"0">>, <<"1">>, <<"1", "2">>, <<"1", "0", "0", "0">> }

FractionTails == { <<"1">>, <<"1", "2">>, <<"5">> }

\* the fractions: some zeros, then a tail
FractionInputs ==
    { [i \in 1..k |-> "0"] \o t : k \in 0..MaxFractionZeros, t \in FractionTails }

AmountInputs ==
    WholeInputs \cup { w \o <<".">> \o f : w \in WholeInputs, f \in FractionInputs }

DecimalsInputs == { 1, ASSET_DECIMALS.usdc, ASSET_DECIMALS.weth }

FormatAmountInit ==
    /\ handler = "format_amount"
    /\ pc = "fa_with_decimals"
    /\ args \in [amount : AmountInputs, decimals : DecimalsInputs]
    /\ loc = [units |-> <<>>]
    /\ calls = <<>>
    /\ txs = <<>>
    /\ receipts = <<>>
    /\ result = Result0

\* format_amount_with_decimals(amount, decimals)
FA_WithDecimals ==
    /\ pc = "fa_with_decimals"
    /\ LET units == format_amount_with_decimals(args.amount, args.decimals)
       IN  IF ~units.ok
           THEN /\ pc' = "done"
                /\ result' = Raised(units.exc)
                /\ UNCHANGED loc
           ELSE /\ pc' = "fa_from_decimals"
                /\ loc' = [units |-> units.value]
                /\ UNCHANGED result
    /\ UNCHANGED <<handler, args, calls, txs, receipts>>

\* format_amount_from_decimals(units, decimals)
FA_FromDecimals ==
    /\ pc = "fa_from_decimals"
    /\ pc' = "done"
    /\ result' = [Returned("amount", "") EXCEPT
                    !.balance = format_amount_from_decimals(loc.units, args.decimals)]
    /\ UNCHANGED <<handler, args, loc, calls, txs, receipts>>

FormatAmountNext == FA_WithDecimals \/ FA_FromDecimals

FormatAmountSpec == FormatAmountInit /\ [][FormatAmountNext]_vars

(***************************************************************************)
(* utils.calculate_slippage_amounts on its own: one behaviour is one call. *)
(***************************************************************************)
SlippageAmounts ==
    { <<>>, <<1>>, <<1, 0>>, <<2, 9, 9, 9>>, Scaled(1, 6),
      <<1, 2, 3, 4, 5, 6, 7, 8, 9>>, Scaled(5, 17), Scaled(1, 18), Scaled(2, 18) }

\* the percentages 0, 0.5, 1, 7, 50 and 100
SlippageInputs ==
    SlippageDefault \cup
      { Float(<<>>, 0), Float(<<1>>, 0), Float(<<7>>, 0), Float(<<5, 0>>, 0),
        Float(<<1, 0, 0>>, 0) }

SlippageInit ==
    /\ handler = "calculate_slippage_amounts"
    /\ pc = "sl_calculate"
    /\ args \in [amount : SlippageAmounts, slippage_percentage : SlippageInputs]
    /\ loc = [units |-> <<>>]
    /\ calls = <<>>
    /\ txs = <<>>
    /\ receipts = <<>>
    /\ result = Result0

\* calculate_slippage_amounts(amount, slippage_percentage)
SL_Calculate ==
    /\ pc = "sl_calculate"
    /\ pc' = "done"
    /\ loc' = [units |-> calculate_slippage_amounts(args.amount, args.slippage_percentage)]
    /\ result' = Returned("amount", "")
    /\ UNCHANGED <<handler, args, calls, txs, receipts>>

SlippageNext == SL_Calculate

SlippageSpec == SlippageInit /\ [][SlippageNext]_vars

(***************************************************************************)
(* Properties.                                                             *)
(***************************************************************************)
IsCreateLiquidity == handler = "create_liquidity"

IsGetPrice == handler = "get_price"

ReturnedText(texts) ==
    pc = "done" /\ result.outcome = "returned" /\ result.text \in texts

CallIndexes(name) == { i \in 1..Len(calls) : calls[i].name = name }

SendIndexes == { i \in 1..Len(calls) : calls[i].fn = "send_transaction" }

ContractReadIndexes == { i \in 1..Len(calls) : calls[i].fn = "read_contract" }

MintIndexes == { i \in 1..Len(txs) : txs[i].kind = "mint" }

\* the balances as first reported: both reads of lines 149-150 returned and
\* the reads of lines 167-168 have not started
BalancesReported ==
    /\ IsCreateLiquidity
    /\ Cardinality({ i \in CallIndexes("balanceOf") : ~calls[i].raised }) = 2
    /\ Cardinality(CallIndexes("balanceOf")) = 2

WethLow == Less(loc.weth_balance, loc.amount_weth_units)

UsdcLow == Less(loc.usdc_balance, loc.amount_usdc_units)

\* C1: when the wallet reports a WETH balance below the requested WETH
\* atomic amount, or a USDC balance below the requested USDC atomic amount,
\* create_liquidity returns the insufficient-balance string and has handed
\* no transaction (no approval, no mint) to the wallet provider.
C1_InsufficientBalanceSendsNothing ==
    (BalancesReported /\ (WethLow \/ UsdcLow)) =>
        /\ ReturnedText({"insufficient_weth", "insufficient_usdc"})
        /\ result.text = (IF WethLow THEN "insufficient_weth" ELSE "insufficient_usdc")
        /\ txs = <<>>
        /\ SendIndexes = {}

C1_Witness ==
    /\ BalancesReported /\ ~WethLow /\ UsdcLow
    /\ result.text = "insufficient_usdc"

\* C2: in get_price, slot0 is read only after getPool has returned a
\* non-zero address; when getPool raises or returns the zero address the
\* handler returns an error string and slot0 is never read.
C2_Slot0OnlyAfterPoolFound ==
    IsGetPrice =>
        /\ \A i \in CallIndexes("slot0") :
              /\ \E j \in CallIndexes("getPool") : j < i /\ ~calls[j].raised
              /\ loc.pool_address.hex # ZERO_HEX
              /\ calls[i].to.hex # ZERO_HEX
        /\ \A j \in CallIndexes("getPool") :
              (calls[j].raised \/ loc.pool_address.hex = ZERO_HEX) =>
                 /\ ReturnedText({"pool_fetch_failed", "no_pool"})
                 /\ result.text = (IF calls[j].raised THEN "pool_fetch_failed" ELSE "no_pool")
                 /\ CallIndexes("slot0") = {}

C2_Witness ==
    /\ IsGetPrice
    /\ \E j \in CallIndexes("getPool") : ~calls[j].raised
    /\ loc.pool_address = ZERO_ADDRESS
    /\ result.text = "no_pool"

\* C3: create_liquidity never lets an exception reach its caller: whatever
\* the args and whichever wallet-provider call raises, the invocation ends
\* by returning a string, and a raising call ends it with the error string.
C3_CreateLiquidityNeverRaises ==
    IsCreateLiquidity =>
        /\ result.outcome # "raised"
        /\ result.outcome = (IF pc = "done" THEN "returned" ELSE "pending")
        /\ (\E i \in 1..Len(calls) : calls[i].raised) => ReturnedText({"error_creating"})
        /\ ~args.schema_ok => ReturnedText({"error_creating"})

C3_Witness ==
    /\ IsCreateLiquidity
    /\ Len(calls) > 0
    /\ calls[Len(calls)].raised
    /\ calls[Len(calls)].fn = "get_address"
    /\ Len(txs) = 2
    /\ ReturnedText({"error_creating"})

\* C4: get_price never lets an exception reach its caller, whatever network
\* descriptor the wallet reports for well-formed args (among them chain id
\* "1" with a network id other than "ethereum-mainnet") and whichever
\* contract read raises.
C4_GetPriceNeverRaises ==
    (IsGetPrice /\ args.schema_ok /\ loc.network # NO_NETWORK) => result.outcome # "raised"

\* the acceptance rule as the specification words it
Accepted(network) ==
    /\ network.protocol_family = "evm"
    /\ \/ network.chain_id = "1"
       \/ network.network_id = "mainnet"
       \/ network.network_id = "ethereum-mainnet"

\* C5: a network is accepted exactly when its family is "evm" and its chain
\* id is "1" or its network id is "mainnet" or "ethereum-mainnet"; for any
\* other network both handlers return the unsupported-network error with
\* get_network as their only call: no contract read, no transaction.
C5_UnsupportedNetworkRejectedAtOnce ==
    (handler # "none" /\ loc.network # NO_NETWORK) =>
        IF Accepted(loc.network)
        THEN result.text # "unsupported_network"
        ELSE /\ ReturnedText({"unsupported_network"})
             /\ result.network_id = loc.network.network_id
             /\ Len(calls) = 1 /\ calls[1].fn = "get_network"
             /\ ContractReadIndexes = {}
             /\ txs = <<>>

C5_Witness ==
    /\ IsCreateLiquidity
    /\ loc.network.protocol_family = "svm"
    /\ loc.network.network_id = "mainnet"
    /\ ReturnedText({"unsupported_network"})

\* C6: in create_liquidity, a network that passes the support check but has
\* no position-manager address or no asset address in the tables ends the
\* handler with an error string, with no balance read and no transaction.
C6_AddressMissReturnsError ==
    ( /\ IsCreateLiquidity
      /\ loc.network # NO_NETWORK
      /\ Accepted(loc.network)
      /\ \/ ~get_position_manager_address(loc.network).ok
         \/ ~get_asset_address(loc.network, "weth").ok
         \/ ~get_asset_address(loc.network, "usdc").ok ) =>
        /\ ReturnedText({"pm_address_error", "asset_address_error"})
        /\ CallIndexes("balanceOf") = {}
        /\ ContractReadIndexes = {}
        /\ txs = <<>>

C6_Witness ==
    /\ IsCreateLiquidity
    /\ loc.network = Net("evm", "5", "mainnet")
    /\ ReturnedText({"pm_address_error"})
    /\ Len(calls) = 1

\* the largest multiple of spacing that is <= tick
FloorMultiple(tick, spacing) ==
    CHOOSE m \in (tick - spacing + 1)..tick : m % spacing = 0

\* the spacing of a fee tier as the specification tables it
SpacingOf(fee) == IF fee = 500 THEN 10 ELSE IF fee = 3000 THEN 60 ELSE 200

\* C7: in every mint, tickLower is the largest multiple of the spacing that
\* is <= the requested lower tick, and tickUpper is the largest multiple
\* <= the requested upper tick, or tickLower + spacing when that is not
\* above tickLower; so tickLower < tickUpper and both are multiples of the
\* spacing.  Spacing 60 maps (-60000, 60000) to itself and (-50, 10) to
\* (-60, 0).
C7_TicksFlooredToSpacing ==
    \A i \in MintIndexes :
        LET p == txs[i].params
            spacing == loc.tick_spacing
            lo == FloorMultiple(args.tick_lower, spacing)
            up == FloorMultiple(args.tick_upper, spacing)
        IN  /\ spacing \in {10, 60, 200}
            /\ p.tickLower = lo
            /\ p.tickUpper = (IF up > lo THEN up ELSE lo + spacing)
            /\ p.tickLower < p.tickUpper
            /\ p.tickLower % spacing = 0
            /\ p.tickUpper % spacing = 0
            /\ (spacing = 60 /\ args.tick_lower = -60000 /\ args.tick_upper = 60000)
                  => (p.tickLower = -60000 /\ p.tickUpper = 60000)
            /\ (spacing = 60 /\ args.tick_lower = -50 /\ args.tick_upper = 10)
                  => (p.tickLower = -60 /\ p.tickUpper = 0)

C7_Witness ==
    \E i \in MintIndexes :
        /\ args.tick_lower = -50 /\ args.tick_upper = 10 /\ loc.tick_spacing = 60
        /\ txs[i].params.tickLower = -60 /\ txs[i].params.tickUpper = 0

\* C8: the spacing is 10 for fee tier 500, 60 for 3000 and 200 for 10000,
\* and any other requested tier is replaced by 500 with spacing 10; so the
\* fee of every mint is one of 500, 3000, 10000, its ticks are aligned to
\* the spacing of that fee, and the success string reports the fee that
\* was submitted.
C8_FeeTierFallback ==
    /\ \A i \in MintIndexes :
          LET p == txs[i].params
          IN  /\ p.fee \in {500, 3000, 10000}
              /\ p.fee = (IF args.fee_tier \in {500, 3000, 10000} THEN args.fee_tier ELSE 500)
              /\ loc.tick_spacing = SpacingOf(p.fee)
              /\ p.tickLower % SpacingOf(p.fee) = 0
              /\ p.tickUpper % SpacingOf(p.fee) = 0
    /\ (IsCreateLiquidity /\ result.text = "success") =>
          \E i \in MintIndexes : result.fee_tier = txs[i].params.fee

C8_Witness ==
    /\ IsCreateLiquidity
    /\ args.fee_tier = 7777
    /\ result.text = "success"
    /\ result.fee_tier = 500
    /\ \E i \in MintIndexes : txs[i].params.fee = 500

\* C9: once the submission or the receipt wait of a transaction raises,
\* create_liquidity makes no further call: it returns the diagnostic string
\* with the transactions already sent left as they are.  An invocation
\* sends at most the WETH approval, the USDC approval and the mint, in that
\* order and each at most once.
C9_NoTransactionAfterFailure ==
    IsCreateLiquidity =>
        /\ \A i \in 1..Len(calls) :
              (calls[i].raised
               /\ calls[i].fn \in {"send_transaction", "wait_for_transaction_receipt"}) =>
                 /\ i = Len(calls)
                 /\ ReturnedText({"error_creating"})
        /\ Len(txs) <= 3
        /\ Cardinality(SendIndexes) = Len(txs)
        /\ \A i \in 1..Len(txs) :
              /\ txs[i].kind = <<"approve", "approve", "mint">>[i]
              /\ txs[i].to = <<to_checksum_address(loc.weth_address),
                               to_checksum_address(loc.usdc_address),
                               to_checksum_address(loc.position_manager_address)>>[i]

C9_Witness ==
    /\ IsCreateLiquidity
    /\ Len(calls) > 0
    /\ calls[Len(calls)].raised
    /\ calls[Len(calls)].fn = "wait_for_transaction_receipt"
    /\ Len(txs) = 2
    /\ Len(receipts) = 1
    /\ ReturnedText({"error_creating"})

\* the mint's receipt, once obtained, is the third receipt
MintReceiptObtained == IsCreateLiquidity /\ Len(receipts) = 3

\* C10: a mint receipt whose status is not success makes create_liquidity
\* return the failure string with the mint's transaction hash; the success
\* string is returned only for a submitted mint whose receipt reports
\* success, and then whether or not the logs hold a token id.
C10_MintReceiptDecidesResult ==
    /\ (MintReceiptObtained /\ receipts[3].status # 1) =>
          /\ ReturnedText({"mint_failed"})
          /\ MintIndexes = {3}
          /\ result.tx_hash = TxHashes[3]
    /\ (MintReceiptObtained /\ receipts[3].status = 1) =>
          /\ ReturnedText({"success"})
          /\ result.tx_hash = TxHashes[3]
          /\ result.has_token_id =>
                \E k \in 1..Len(receipts[3].logs) :
                    /\ receipts[3].logs[k].address.hex = loc.position_manager_address.hex
                    /\ Len(receipts[3].logs[k].topics) >= 4
                    /\ receipts[3].logs[k].topics[4] = result.token_id
    /\ (IsCreateLiquidity /\ result.text = "success") =>
          /\ MintReceiptObtained
          /\ receipts[3].status = 1
          /\ MintIndexes = {3}

C10_Witness ==
    /\ MintReceiptObtained
    /\ receipts[3].status = 0
    /\ Len(receipts[3].logs) > 0
    /\ ReturnedText({"mint_failed"})
    /\ result.tx_hash = TxHashes[3]

(***************************************************************************)
(* The value of a decimal string, for the claims about the conversions.    *)
(***************************************************************************)
\* the place of the first c in s, or Len(s) + 1
PlaceOf(s, c) ==
    IF \E i \in 1..Len(s) : s[i] = c
    THEN CHOOSE i \in 1..Len(s) : s[i] = c /\ \A j \in 1..(i - 1) : s[j] # c
    ELSE Len(s) + 1

WholeOf(s) == SubSeq(s, 1, PlaceOf(s, ".") - 1)

FractionOf(s) == SubSeq(s, PlaceOf(s, ".") + 1, Len(s))

DigitsOf(s) == [i \in 1..Len(s) |-> DigitOf(s[i])]

\* floor(value of s * 10**d) for a decimal string s without exponent
TruncatedUnits(s, d) ==
    LET f == FractionOf(s)
    IN  Normalize(DigitsOf(WholeOf(s))
                    \o [i \in 1..d |-> IF i <= Len(f) THEN DigitOf(f[i]) ELSE 0])

RECURSIVE NatOf(_)
NatOf(s) == IF s = <<>> THEN 0 ELSE 10 * NatOf(SubSeq(s, 1, Len(s) - 1)) + DigitOf(s[Len(s)])

NOT_A_NUMBER == <<-1>>

\* value of t * 10**d for a string t in plain ("12.5") or scientific
\* ("1.25E+1", "5E-7") notation, when that is an integer; else NOT_A_NUMBER
DenotedUnits(t, d) ==
    LET e        == PlaceOf(t, "E")
        mantissa == SubSeq(t, 1, e - 1)
        power    == SubSeq(t, e + 1, Len(t))
        w        == WholeOf(mantissa)
        f        == FractionOf(mantissa)
        wellFormed ==
            /\ Len(w) > 0
            /\ \A i \in 1..Len(w) : IsDigitChar(w[i])
            /\ \A i \in 1..Len(f) : IsDigitChar(f[i])
            /\ e <= Len(t) =>
                 /\ Len(power) > 1
                 /\ power[1] \in {"+", "-"}
                 /\ \A i \in 2..Len(power) : IsDigitChar(power[i])
        exponent ==
            IF e > Len(t) THEN 0
            ELSE IF power[1] = "-" THEN 0 - NatOf(SubSeq(power, 2, Len(power)))
            ELSE NatOf(SubSeq(power, 2, Len(power)))
        digits == Normalize(DigitsOf(w \o f))
        scale  == exponent - Len(f) + d
    IN  IF ~wellFormed THEN NOT_A_NUMBER
        ELSE IF scale >= 0 THEN MulPow10(digits, scale)
        ELSE IF digits = <<>> THEN <<>>
        ELSE IF /\ Len(digits) > -scale
                /\ \A i \in (Len(digits) + scale + 1)..Len(digits) : digits[i] = 0
        THEN SubSeq(digits, 1, Len(digits) + scale)
        ELSE NOT_A_NUMBER

\* no zero and no point at the end of the digits after a decimal point
NoTrailingZeros(t) ==
    LET mantissa == SubSeq(t, 1, PlaceOf(t, "E") - 1)
    IN  PlaceOf(mantissa, ".") <= Len(mantissa)
          => mantissa[Len(mantissa)] \notin {"0", "."}

\* C11: format_amount_with_decimals(s, d) is the value of s times 10**d with
\* the fractional digits beyond d cut off, for every decimal string s and
\* every decimal count d, and format_amount_from_decimals of that result
\* and d is a string that denotes the same value, "0" for zero, without
\* trailing zeros or a trailing decimal point.
C11_ConversionRoundTrip ==
    handler = "format_amount" =>
      /\ result.outcome # "raised"
      /\ pc # "fa_with_decimals" =>
           loc.units = TruncatedUnits(args.amount, args.decimals)
      /\ pc = "done" =>
           /\ DenotedUnits(result.balance, args.decimals) = loc.units
           /\ loc.units = <<>> => result.balance = <<"0">>
           /\ NoTrailingZeros(result.balance)

(***************************************************************************)
(* The exact minimum, for the claim about calculate_slippage_amounts.      *)
(***************************************************************************)
LessEq(a, b) == a = b \/ Less(a, b)

\* floor(amount * (1 - p / 100)) for the percentage p = m * 2**e, e <= 0
ExactMinimum(amount, p) ==
    LET hundred == LShiftLeft(<<100>>, -p.e)
    IN  Digits(LDivModSmall(LMul(Limbs(amount), LSub(hundred, p.m)), 100 * 2^(-p.e)).q)

\* the atomic amounts create_liquidity can be asked to deposit
DepositAmounts ==
    LET units == { format_amount_with_decimals(a, ASSET_DECIMALS.weth) : a \in AmountWethInputs }
                   \cup { format_amount_with_decimals(a, ASSET_DECIMALS.usdc) : a \in AmountUsdcInputs }
    IN  { u.value : u \in { v \in units : v.ok } }

\* calculate_slippage_amounts of each of them
SlippageMinimumOf ==
    [a \in DepositAmounts |-> [p \in SlippageDefault |-> calculate_slippage_amounts(a, p)]]

\* C12: calculate_slippage_amounts(amount, slippage) is
\* floor(amount * (1 - slippage / 100)) for every amount >= 0 and every
\* slippage from 0 to 100, so it is at most the amount; create_liquidity
\* puts it into both minimums of the mint, each at most the desired amount
\* of the same token.
C12_SlippageMinimum ==
    /\ handler = "calculate_slippage_amounts" /\ pc = "done" =>
         /\ loc.units = ExactMinimum(args.amount, args.slippage_percentage)
         /\ LessEq(loc.units, args.amount)
    /\ handler = "create_liquidity" =>
         \A i \in MintIndexes :
           LET params == txs[i].params
           IN  /\ params.amount0Min = SlippageMinimumOf[params.amount0Desired][args.slippage]
               /\ params.amount1Min = SlippageMinimumOf[params.amount1Desired][args.slippage]
               /\ LessEq(params.amount0Min, params.amount0Desired)
               /\ LessEq(params.amount1Min, params.amount1Desired)

(***************************************************************************)
(* The order of the wallet calls of create_liquidity.                      *)
(***************************************************************************)
\* the stage of a logged call: 1 the network check, 2 a balance read, 3 and
\* 4 the WETH approval sent and waited for, 5 and 6 the USDC approval, 7
\* and 8 the mint; 0 for the other calls (get_address, web3)
StageOf(c, weth, usdc) ==
    IF c.fn = "get_network" THEN 1
    ELSE IF c.fn = "read_contract" /\ c.name = "balanceOf" THEN 2
    ELSE IF c.fn = "send_transaction" /\ c.name = "approve" /\ c.to = weth THEN 3
    ELSE IF c.fn = "wait_for_transaction_receipt" /\ c.name = "approve" /\ c.to = weth THEN 4
    ELSE IF c.fn = "send_transaction" /\ c.name = "approve" /\ c.to = usdc THEN 5
    ELSE IF c.fn = "wait_for_transaction_receipt" /\ c.name = "approve" /\ c.to = usdc THEN 6
    ELSE IF c.fn = "send_transaction" /\ c.name = "mint" THEN 7
    ELSE IF c.fn = "wait_for_transaction_receipt" /\ c.name = "mint" THEN 8
    ELSE 0

\* the stages of the calls logged so far; a call that raised counts as the
\* negative of its stage
Stages ==
    LET weth == to_checksum_address(loc.weth_address)
        usdc == to_checksum_address(loc.usdc_address)
    IN  [i \in 1..Len(calls) |->
           IF calls[i].raised THEN 0 - StageOf(calls[i], weth, usdc)
           ELSE StageOf(calls[i], weth, usdc)]

\* get_address and web3 touch no chain; the other calls have a stage
Ranked(c) == c.fn \notin {"get_address", "web3"}

\* the stage of the last staged call before the call at j of the log, or 0
StageBefore(stages, log, j) ==
    IF \E i \in 1..(j - 1) : Ranked(log[i])
    THEN stages[CHOOSE i \in 1..(j - 1) :
                  Ranked(log[i]) /\ \A m \in (i + 1)..(j - 1) : ~Ranked(log[m])]
    ELSE 0

\* C13: the wallet calls of create_liquidity come in one order: the network
\* check, the balance reads, the WETH approval sent and then waited for, the
\* USDC approval sent and then waited for, the mint sent and then waited
\* for.  Every call a step makes follows a call of the stage before it that
\* returned (a balance read may follow a balance read): the USDC approval
\* is not sent before the WETH approval's receipt is there, and the mint is
\* not sent before both approval receipts are there.
C13_FixedCallOrder ==
    [][IsCreateLiquidity =>
         \A j \in (Len(calls) + 1)..Len(calls') :
           LET st   == Stages'
               k    == IF st[j] < 0 THEN 0 - st[j] ELSE st[j]
               prev == StageBefore(st, calls', j)
               ReturnedBefore(n) == \E i \in 1..(j - 1) : st[i] = n
               BalanceReadBefore(token_address) ==
                   \E i \in 1..(j - 1) : st[i] = 2 /\ calls[i].to = lower(token_address)
           IN  /\ Ranked(calls'[j]) => k \in 1..8
               /\ k = 1 => prev = 0
               /\ k = 2 => prev \in {1, 2}
               /\ k >= 3 => prev = k - 1
               /\ k = 3 => /\ BalanceReadBefore(loc.weth_address)
                           /\ BalanceReadBefore(loc.usdc_address)
               /\ k = 5 => ReturnedBefore(4) /\ Len(receipts) = 1
               /\ k = 7 => ReturnedBefore(4) /\ ReturnedBefore(6) /\ Len(receipts) = 2
      ]_vars

\* the mint's receipt has been waited for, after both approvals
C13_Witness ==
    /\ IsCreateLiquidity
    /\ \E j \in 1..Len(calls) : Stages[j] = 8
    /\ Len(receipts) = 3

\* the receipts of the approvals obtained so far: the first two receipts
ApprovalReceiptIndexes == { i \in 1..Len(receipts) : i <= 2 }

\* C14: an approval whose receipt reports a status other than success has
\* failed: create_liquidity then submits no mint and returns a diagnostic
\* string, so a mint is submitted only after two approval receipts that
\* report success.
C14_RevertedApprovalAborts ==
    IsCreateLiquidity =>
      /\ MintIndexes # {} =>
           /\ Len(receipts) >= 2
           /\ \A i \in ApprovalReceiptIndexes : receipts[i].status = 1
      /\ (\E i \in ApprovalReceiptIndexes : receipts[i].status # 1) /\ pc = "done" =>
           /\ MintIndexes = {}
           /\ ReturnedText({"error_creating"})

(***************************************************************************)
(* The parameters of the mint.                                             *)
(***************************************************************************)
\* the hexadecimal digits of the two token addresses of constants.py
AddressDigits ==
    [h \in {"c02aaa39b223fe8d0a0e5c4f27ead9083c756cc2", "a0b86991c6218b36c1d19d4a2e9eb0ce3606eb48"} |->
       IF h = "c02aaa39b223fe8d0a0e5c4f27ead9083c756cc2"
       THEN <<12, 0, 2, 10, 10, 10, 3, 9, 11, 2, 2, 3, 15, 14, 8, 13, 0,
             10, 0, 14, 5, 12, 4, 15, 2, 7, 14, 10, 13, 9, 0, 8, 3, 12, 7,
             5, 6, 12, 12, 2>>
       ELSE <<10, 0, 11, 8, 6, 9, 9, 1, 12, 6, 2, 1, 8, 11, 3, 6, 12, 1,
             13, 1, 9, 13, 4, 10, 2, 14, 9, 14, 11, 0, 12, 14, 3, 6, 0, 6,
             14, 11, 4, 8>>]

\* the address a is numerically below the address b
NumericallyLower(a, b) ==
    LET x == AddressDigits[a.hex]
        y == AddressDigits[b.hex]
    IN  \E i \in 1..Len(x) : x[i] < y[i] /\ \A j \in 1..(i - 1) : x[j] = y[j]

\* the atomic units of each amount string, by decimals
UnitsOf ==
    [a \in AmountWethInputs \cup AmountUsdcInputs |->
       [d \in {ASSET_DECIMALS.weth, ASSET_DECIMALS.usdc} |-> format_amount_with_decimals(a, d)]]

ApprovalIndexes == { i \in 1..Len(txs) : txs[i].kind = "approve" }

\* C15: a mint that create_liquidity submits has the USDC address as token0
\* and the WETH address as token1, token0 numerically below token1; its
\* amount0Desired and amount0Min are the USDC atomic amount and the slippage
\* minimum of it, its amount1Desired and amount1Min those of WETH; its
\* recipient is the wallet's own address; and each token was approved to
\* the position manager for the desired amount of that token.
C15_MintParameters ==
    IsCreateLiquidity =>
      \A i \in MintIndexes :
        LET params == txs[i].params
            usdc   == UnitsOf[args.amount_usdc][ASSET_DECIMALS.usdc]
            weth   == UnitsOf[args.amount_weth][ASSET_DECIMALS.weth]
        IN  /\ params.token0 = ASSET_ADDRESSES["ethereum-mainnet"].usdc
            /\ params.token1 = ASSET_ADDRESSES["ethereum-mainnet"].weth
            /\ NumericallyLower(params.token0, params.token1)
            /\ usdc.ok /\ params.amount0Desired = usdc.value
            /\ weth.ok /\ params.amount1Desired = weth.value
            /\ params.amount0Min = SlippageMinimumOf[usdc.value][args.slippage]
            /\ params.amount1Min = SlippageMinimumOf[weth.value][args.slippage]
            /\ params.recipient = WALLET_ADDRESS
            /\ \E j \in ApprovalIndexes :
                 /\ j < i
                 /\ txs[j].to = params.token0
                 /\ txs[j].spender = txs[i].to
                 /\ txs[j].amount = params.amount0Desired
            /\ \E j \in ApprovalIndexes :
                 /\ j < i
                 /\ txs[j].to = params.token1
                 /\ txs[j].spender = txs[i].to
                 /\ txs[j].amount = params.amount1Desired
            /\ \A j \in ApprovalIndexes :
                 /\ txs[j].to \in {params.token0, params.token1}
                 /\ txs[j].to = params.token0 => txs[j].amount = params.amount0Desired
                 /\ txs[j].to = params.token1 => txs[j].amount = params.amount1Desired

\* a mint has been submitted after the two approvals
C15_Witness ==
    /\ IsCreateLiquidity
    /\ MintIndexes # {}
    /\ Cardinality(ApprovalIndexes) = 2

(***************************************************************************)
(* get_price only reads.                                                   *)
(***************************************************************************)
\* C16: get_price submits no transaction and waits for no receipt, whatever
\* its input and whatever the wallet answers; it reads at most two contract
\* functions, getPool and after it slot0, and hands getPool the fee tier it
\* was asked for, with no fallback to 500.
C16_GetPriceReadOnly ==
    IsGetPrice =>
      /\ txs = <<>>
      /\ receipts = <<>>
      /\ \A i \in 1..Len(calls) :
           calls[i].fn \notin {"send_transaction", "wait_for_transaction_receipt"}
      /\ Cardinality(ContractReadIndexes) <= 2
      /\ \A i \in ContractReadIndexes :
           \/ /\ calls[i].name = "getPool"
              /\ calls[i].arg = args.fee_tier
              /\ \A j \in ContractReadIndexes : j >= i
           \/ /\ calls[i].name = "slot0"
              /\ \E j \in ContractReadIndexes :
                   j < i /\ calls[j].name = "getPool" /\ ~calls[j].raised

\* get_price was asked for a fee tier Uniswap does not know, and read the
\* pool's address and its slot0
C16_Witness ==
    /\ IsGetPrice
    /\ args.fee_tier \notin {500, 3000, 10000}
    /\ Cardinality(ContractReadIndexes) = 2
    /\ pc = "done"


====
